---- MODULE Spec2Model ----
(***************************************************************************)
(* State-machine model of src/app.js: the device-motion looper engine.     *)
(*                                                                         *)
(* Units.  JavaScript numbers are modelled by exact integers:              *)
(*   - playback speeds are in quarters (1x = 4, -0.25x = -1);              *)
(*   - normalized control values are in 1/Scale (1.0 = Scale = 720), which *)
(*     is exact for whole-degree orientation angles;                       *)
(*   - smoother values are in 1/FP, FP = Scale * 20^MaxTicks, which is     *)
(*     exact for MaxTicks steps of the factors 0.15 = 3/20 and 0.2 = 4/20; *)
(*   - gains are in hundredths (1.0 = 100).                                *)
(* Arrays are functions over 0..n-1, as in the source.                     *)
(***************************************************************************)
EXTENDS Integers, Sequences, FiniteSets, TLC

(* ------------------------------ bounds -------------------------------- *)
\* recording capacity in samples (audioCtx.sampleRate * 30 in the source)
bufferLength == 2
\* events explored after page load
MaxSteps == 6
\* mapToSpeed is called on normalized values from -QuantMargin to Scale + QuantMargin
QuantMargin == 120
\* animation frames explored (fixes the fixed-point resolution FP)
MaxTicks == 2
\* direct startEngine calls explored by SpecApi
MaxStartCalls == 2
\* events explored on the running engine by SpecRunning
MaxEvents == 5

(* ------------------------- program constants -------------------------- *)
NumLoopers == 4
\* the finest unit the handlers produce: (gamma/180 + beta/360) / 2
Scale == 2 * 360
MasterVolume == 50
NumNotes == 4

RECURSIVE Pow(_, _)
Pow(b, e) == IF e = 0 THEN 1 ELSE b * Pow(b, e - 1)
FP == Scale * Pow(20, MaxTicks)
Norm2FP(x) == x * Pow(20, MaxTicks)

Min(a, b) == IF a < b THEN a ELSE b

Null == [kind |-> "null"]
undefined == 1000

LooperIds == 0 .. (NumLoopers - 1)
\* two sample values tell any reordering apart (0 is the silence of a fresh buffer)
Samples == {1, 2}
\* the host hands every callback a block of one fixed size (4096 frames in the
\* source); two sizes are explored so that a block can fill the buffer exactly
\* and can overrun it
BlockSizes == {1, 2}
Blocks == UNION { [0 .. (n - 1) -> Samples] : n \in BlockSizes }
ALen(a) == Cardinality(DOMAIN a)

(* --------------------------- pure functions --------------------------- *)
PLAYBACK_SPEEDS == [k \in 0 .. 11 |->
    CASE k = 0 -> -16 [] k = 1 -> -8 [] k = 2 -> -6 [] k = 3 -> -4
      [] k = 4 -> -2  [] k = 5 -> -1 [] k = 6 -> 1  [] k = 7 -> 2
      [] k = 8 -> 4   [] k = 9 -> 6  [] k = 10 -> 8 [] k = 11 -> 16]

\* JavaScript array read: out of range gives undefined
ArrayGet(arr, k) == IF k \in DOMAIN arr THEN arr[k] ELSE undefined

mapToSpeedNoClamp(normalizedValue) ==
    ArrayGet(PLAYBACK_SPEEDS, (normalizedValue * ALen(PLAYBACK_SPEEDS)) \div Scale)

\* normalizedValue in 1/Scale; Math.floor(x * 12) is the floored division
mapToSpeed(normalizedValue) ==
    LET index == (normalizedValue * ALen(PLAYBACK_SPEEDS)) \div Scale
    IN  ArrayGet(PLAYBACK_SPEEDS, Min(index, ALen(PLAYBACK_SPEEDS) - 1))

ParameterSmoother(initialValue, factor20) ==
    [currentValue |-> initialValue, targetValue |-> initialValue,
     smoothingFactor |-> factor20]

setTarget(s, newValue) == [s EXCEPT !.targetValue = newValue]

stepOvershoot(s) ==
    [s EXCEPT !.currentValue =
        s.currentValue
            + ((s.targetValue - s.currentValue) * (20 + s.smoothingFactor)) \div 20]

step(s) ==
    [s EXCEPT !.currentValue =
        s.currentValue + ((s.targetValue - s.currentValue) * s.smoothingFactor) \div 20]

(* ------------------------------- state -------------------------------- *)
VARIABLES
    startButtonDisabled,  \* startButton.disabled
    permissionPending,    \* unsettled DeviceOrientationEvent.requestPermission()
    audioCtx,             \* Null, or the audio context
    pendingResume,        \* unsettled audioCtx.resume() promises
    isPlaying,            \* the engine-running flag (global isPlaying)
    masterGain, compressor, masterReverb, reverbWet, reverbDry,
    startedOscillators,   \* oscillators (tone + LFO pairs) started, never stopped
    chordOscillators,     \* Null, or the chord system handed back to the engine
    loopers,              \* the global array: empty, or looper objects 0..3
    parameterSmoothers,   \* empty, or per looper the two smoothers
    updateLoops,          \* running requestAnimationFrame chains
    controlsWired,        \* click listeners per transport button
    orientationListeners, \* registered deviceorientation handlers, by variant
    orientation,          \* xValue, yValue, rotation
    statusText,           \* text of the status-i elements
    startedVoices,        \* per looper: playback voices started and never stopped
    reverbValue,          \* the reverb slider's displayed percent
    lastLog,              \* latest engine / transport console message
    alerts,               \* alert() dialogs shown
    uncaught,             \* exceptions that escaped an event handler
    fed,                  \* per looper: samples delivered while recording this take
    mixSinceStart,        \* <<p>>: last slider percent since the engine runs; else <<>>
    quantCall,            \* one call of mapToSpeed: argument, and result once made
    smootherCall,         \* one ParameterSmoother driven on its own
    steps, ticks, startCalls  \* exploration budgets

engineVars == <<audioCtx, pendingResume, isPlaying, masterGain, compressor,
                masterReverb, reverbWet, reverbDry, startedOscillators,
                chordOscillators, updateLoops, controlsWired>>
pageVars == <<startButtonDisabled, permissionPending, orientationListeners>>
vars == <<startButtonDisabled, permissionPending, audioCtx, pendingResume, isPlaying,
          masterGain, compressor, masterReverb, reverbWet, reverbDry,
          startedOscillators, chordOscillators, loopers, parameterSmoothers,
          updateLoops, controlsWired, orientationListeners, orientation,
          statusText, startedVoices, reverbValue, lastLog, alerts, uncaught, fed,
          mixSinceStart, quantCall, smootherCall, steps, ticks, startCalls>>

(* ------------------------------ loopers ------------------------------- *)
\* The part of the state the transport functions read and write.
World == [loopers |-> loopers, statusText |-> statusText, lastLog |-> lastLog,
          startedVoices |-> startedVoices]

createLooper(index) ==
    [index |-> index,
     recordBufferData |-> [k \in 0 .. (bufferLength - 1) |-> 0],
     writePosition |-> 0,
     recordedLength |-> 0,
     bufferSource |-> Null,
     playbackGainTo |-> "none",
     isRecording |-> FALSE,
     isPlaying |-> FALSE,
     glitchIntensity |-> 0,
     playbackRate |-> 4,
     targetPlaybackRate |-> 4,
     stutterRate |-> 0]

updateLooperUINoStopped(w, looperIndex, state) ==
    IF looperIndex \notin DOMAIN w.statusText THEN w
    ELSE [w EXCEPT !.statusText[looperIndex] =
            CASE state = "recording" -> "RECORDING"
              [] state = "playing" -> "PLAYING"
              [] state = "cleared" -> "READY"
              [] OTHER -> @]

updateLooperUI(w, looperIndex, state) ==
    IF looperIndex \notin DOMAIN w.statusText THEN w
    ELSE [w EXCEPT !.statusText[looperIndex] =
            CASE state = "recording" -> "RECORDING"
              [] state = "playing" -> "PLAYING"
              [] state = "stopped" -> "STOPPED"
              [] state = "cleared" -> "READY"
              [] OTHER -> @]

stopPlaybackRewind(w, i) ==
    IF ~w.loopers[i].isPlaying THEN w
    ELSE updateLooperUI(
            [w EXCEPT !.loopers[i].bufferSource = Null,
                      !.startedVoices[i] =
                          IF w.loopers[i].bufferSource # Null THEN @ - 1 ELSE @,
                      !.loopers[i].isPlaying = FALSE,
                      !.loopers[i].writePosition = 0,
                      !.lastLog = <<"stopped playback", i>>],
            i, "stopped")

\* stop() and disconnect() act on the voice the looper holds, if any
stopPlayback(w, i) ==
    IF ~w.loopers[i].isPlaying THEN w
    ELSE updateLooperUI(
            [w EXCEPT !.loopers[i].bufferSource = Null,
                      !.startedVoices[i] =
                          IF w.loopers[i].bufferSource # Null THEN @ - 1 ELSE @,
                      !.loopers[i].isPlaying = FALSE,
                      !.lastLog = <<"stopped playback", i>>],
            i, "stopped")

startRecordingKeepPlaying(w, i) ==
    updateLooperUI(
        [w EXCEPT !.loopers[i].writePosition = 0,
                  !.loopers[i].recordedLength = 0,
                  !.loopers[i].isRecording = TRUE,
                  !.lastLog = <<"started recording", i>>],
        i, "recording")

startRecordingKeepTake(w, i) ==
    LET w1 == IF w.loopers[i].isPlaying THEN stopPlayback(w, i) ELSE w
    IN  updateLooperUI(
            [w1 EXCEPT !.loopers[i].isRecording = TRUE,
                       !.lastLog = <<"started recording", i>>],
            i, "recording")

startRecording(w, i) ==
    LET w1 == IF w.loopers[i].isPlaying THEN stopPlayback(w, i) ELSE w
    IN  updateLooperUI(
            [w1 EXCEPT !.loopers[i].writePosition = 0,
                       !.loopers[i].recordedLength = 0,
                       !.loopers[i].isRecording = TRUE,
                       !.lastLog = <<"started recording", i>>],
            i, "recording")

stopRecordingAll(w, i) ==
    updateLooperUI(
        [w EXCEPT !.loopers = [j \in DOMAIN @ |-> [@[j] EXCEPT !.isRecording = FALSE]],
                  !.lastLog = <<"stopped recording", i>>],
        i, "stopped")

stopRecording(w, i) ==
    updateLooperUI(
        [w EXCEPT !.loopers[i].isRecording = FALSE,
                  !.lastLog = <<"stopped recording", i>>],
        i, "stopped")

makeVoiceShort(w, i) ==
    LET l == w.loopers[i]
        playBuffer == [k \in 0 .. (l.recordedLength - 2) |-> l.recordBufferData[k]]
    IN  updateLooperUI(
            [w EXCEPT !.loopers[i].bufferSource =
                          [kind |-> "source", buffer |-> playBuffer, loop |-> TRUE,
                           playbackRate |-> l.targetPlaybackRate, started |-> TRUE,
                           rateAtStart |-> l.targetPlaybackRate],
                      !.loopers[i].playbackGainTo = "compressor",
                      !.startedVoices[i] = @ + 1,
                      !.loopers[i].isPlaying = TRUE,
                      !.lastLog = <<"started playback", i>>],
            i, "playing")

\* lines 220-247: the voice is a copy of the first recordedLength samples;
\* rateAtStart keeps the rate the voice had when start() was called
makeVoice(w, i) ==
    LET l == w.loopers[i]
        playBuffer == [k \in 0 .. (l.recordedLength - 1) |-> l.recordBufferData[k]]
    IN  updateLooperUI(
            [w EXCEPT !.loopers[i].bufferSource =
                          [kind |-> "source", buffer |-> playBuffer, loop |-> TRUE,
                           playbackRate |-> l.targetPlaybackRate, started |-> TRUE,
                           rateAtStart |-> l.targetPlaybackRate],
                      !.loopers[i].playbackGainTo = "compressor",
                      !.startedVoices[i] = @ + 1,
                      !.loopers[i].isPlaying = TRUE,
                      !.lastLog = <<"started playback", i>>],
            i, "playing")

startPlaybackNoGuard(w, i) ==
    makeVoice(IF w.loopers[i].isRecording THEN stopRecording(w, i) ELSE w, i)

startPlayback(w, i) ==
    LET w1 == IF w.loopers[i].isRecording THEN stopRecording(w, i) ELSE w
    IN  IF w1.loopers[i].recordedLength = 0
        THEN [w1 EXCEPT !.lastLog = <<"no recorded content", i>>]
        ELSE makeVoice(w1, i)

clearLoopKeepTake(w, i) ==
    updateLooperUI(
        [stopRecording(stopPlayback(w, i), i) EXCEPT !.lastLog = <<"cleared", i>>],
        i, "cleared")

clearLoop(w, i) ==
    LET w2 == stopRecording(stopPlayback(w, i), i)
    IN  updateLooperUI(
            [w2 EXCEPT !.loopers[i].writePosition = 0,
                       !.loopers[i].recordedLength = 0,
                       !.lastLog = <<"cleared", i>>],
            i, "cleared")

\* the stop button's own handler, lines 387-398
stopButton(w, i) ==
    IF w.loopers[i].isPlaying THEN stopPlayback(w, i)
    ELSE IF w.loopers[i].isRecording THEN stopRecording(w, i)
    ELSE w

onaudioprocessNoClip(w, i, input) ==
    LET l == w.loopers[i]
        copyLength == ALen(input)
    IN  IF ~l.isRecording THEN w
        ELSE IF bufferLength - l.writePosition <= 0 THEN stopRecording(w, i)
        ELSE [w EXCEPT
                !.loopers[i].recordBufferData =
                    [k \in DOMAIN @ |->
                        IF k >= l.writePosition /\ k < l.writePosition + copyLength
                        THEN input[k - l.writePosition] ELSE @[k]],
                !.loopers[i].writePosition = l.writePosition + copyLength,
                !.loopers[i].recordedLength = l.writePosition + copyLength]

onaudioprocessNeverFull(w, i, input) ==
    LET l == w.loopers[i]
        remaining == bufferLength - l.writePosition
        copyLength == Min(ALen(input), remaining)
    IN  IF ~l.isRecording THEN w
        ELSE IF remaining < 0 THEN stopRecording(w, i)
        ELSE [w EXCEPT
                !.loopers[i].recordBufferData =
                    [k \in DOMAIN @ |->
                        IF k >= l.writePosition /\ k < l.writePosition + copyLength
                        THEN input[k - l.writePosition] ELSE @[k]],
                !.loopers[i].writePosition = l.writePosition + copyLength,
                !.loopers[i].recordedLength = l.writePosition + copyLength]

\* the ScriptProcessor callback of looper i, lines 162-175
onaudioprocess(w, i, input) ==
    LET l == w.loopers[i]
        remaining == bufferLength - l.writePosition
        copyLength == Min(ALen(input), remaining)
    IN  IF ~l.isRecording THEN w
        ELSE IF remaining <= 0 THEN stopRecording(w, i)
        ELSE [w EXCEPT
                !.loopers[i].recordBufferData =
                    [k \in DOMAIN @ |->
                        IF k >= l.writePosition /\ k < l.writePosition + copyLength
                        THEN input[k - l.writePosition] ELSE @[k]],
                !.loopers[i].writePosition = l.writePosition + copyLength,
                !.loopers[i].recordedLength = l.writePosition + copyLength]

\* the click listener of one transport button
clickHandler(button, w, i) ==
    CASE button = "rec" -> startRecording(w, i)
      [] button = "play" -> startPlayback(w, i)
      [] button = "stop" -> stopButton(w, i)
      [] button = "clear" -> clearLoop(w, i)

\* a button with n click listeners runs its handler n times in one event
RECURSIVE Clicks(_, _, _, _)
Clicks(button, w, i, n) ==
    IF n = 0 THEN w ELSE Clicks(button, clickHandler(button, w, i), i, n - 1)

(* --------------------------- update loop ------------------------------ *)
\* looper.targetPlaybackRate || 1
OrOne(rate) == IF rate = 0 \/ rate = undefined THEN 4 ELSE rate

tickLooperNoLiveRate(l, sm) ==
    [l EXCEPT !.glitchIntensity = step(sm.glitchIntensity).currentValue,
              !.playbackRate = OrOne(l.targetPlaybackRate),
              !.stutterRate = step(sm.stutterRate).currentValue]

tickLooper(l, sm) ==
    LET playbackRate == OrOne(l.targetPlaybackRate)
        l1 == [l EXCEPT !.glitchIntensity = step(sm.glitchIntensity).currentValue,
                        !.playbackRate = playbackRate,
                        !.stutterRate = step(sm.stutterRate).currentValue]
    IN  IF l.bufferSource # Null /\ l.isPlaying
        THEN [l1 EXCEPT !.bufferSource.playbackRate = playbackRate]
        ELSE l1

\* one run of updateLooperParameters over the current arrays
updateLooperParameters(ls, sms) ==
    [loopers |-> [i \in DOMAIN ls |-> tickLooper(ls[i], sms[i])],
     parameterSmoothers |->
        [i \in DOMAIN sms |->
            IF i \in DOMAIN ls
            THEN [glitchIntensity |-> step(sms[i].glitchIntensity),
                  stutterRate |-> step(sms[i].stutterRate)]
            ELSE sms[i]]]

(* ------------------------ orientation mapper -------------------------- *)
OrientationSamples ==
    { [gamma |-> 0, beta |-> -180, alpha |-> 0],
      [gamma |-> 90, beta |-> 180, alpha |-> 359],
      [gamma |-> -45, beta |-> 0, alpha |-> 180] }

\* normalized angles in 1/Scale
NormGamma(e) == (e.gamma + 90) * (Scale \div 180)
NormBeta(e) == (e.beta + 180) * (Scale \div 360)
NormAlpha(e) == e.alpha * (Scale \div 360)

GlitchTarget(e, k) ==
    CASE k = 0 -> NormGamma(e)
      [] k = 1 -> NormBeta(e)
      [] k = 2 -> NormAlpha(e)
      [] k = 3 -> (NormGamma(e) + NormBeta(e)) \div 2

SpeedInputLockstep(e, k) == GlitchTarget(e, k)

SpeedInput(e, k) ==
    CASE k = 0 -> NormBeta(e)
      [] k = 1 -> NormAlpha(e)
      [] k = 2 -> NormGamma(e)
      [] k = 3 -> NormAlpha(e)

RECURSIVE mapOrientationStutter(_, _, _, _)
mapOrientationStutter(e, k, sms, ls) ==
    IF k = NumLoopers THEN [parameterSmoothers |-> sms, loopers |-> ls, threw |-> FALSE]
    ELSE IF k \notin DOMAIN sms
    THEN [parameterSmoothers |-> sms, loopers |-> ls, threw |-> TRUE]
    ELSE LET sms1 == [sms EXCEPT
                        ![k].glitchIntensity = setTarget(@, Norm2FP(GlitchTarget(e, k))),
                        ![k].stutterRate = setTarget(@, Norm2FP(GlitchTarget(e, k)))]
         IN  IF k \notin DOMAIN ls
             THEN [parameterSmoothers |-> sms1, loopers |-> ls, threw |-> TRUE]
             ELSE mapOrientationStutter(e, k + 1, sms1,
                    [ls EXCEPT ![k].targetPlaybackRate = mapToSpeed(SpeedInput(e, k))])

\* The handler body from its k-th looper on: statement by statement, stopping
\* at the first read of a property of undefined (a TypeError).
RECURSIVE mapOrientation(_, _, _, _)
mapOrientation(e, k, sms, ls) ==
    IF k = NumLoopers THEN [parameterSmoothers |-> sms, loopers |-> ls, threw |-> FALSE]
    ELSE IF k \notin DOMAIN sms
    THEN [parameterSmoothers |-> sms, loopers |-> ls, threw |-> TRUE]
    ELSE LET sms1 == [sms EXCEPT ![k].glitchIntensity =
                                    setTarget(@, Norm2FP(GlitchTarget(e, k)))]
         IN  IF k \notin DOMAIN ls
             THEN [parameterSmoothers |-> sms1, loopers |-> ls, threw |-> TRUE]
             ELSE mapOrientation(e, k + 1, sms1,
                    [ls EXCEPT ![k].targetPlaybackRate = mapToSpeed(SpeedInput(e, k))])

\* the listener registered once permission was granted, lines 535-565
grantedOrientationHandler(e, sms, ls) == mapOrientation(e, 0, sms, ls)

\* the listener registered directly, lines 576-606 (the same text)
directOrientationHandler(e, sms, ls) == mapOrientation(e, 0, sms, ls)

orientationHandler(variant, e, sms, ls) ==
    IF variant = "granted" THEN grantedOrientationHandler(e, sms, ls)
    ELSE directOrientationHandler(e, sms, ls)

\* the event is handed to every registered listener in registration order; an
\* exception in one listener is reported and does not stop the others
RECURSIVE dispatchOrientation(_, _, _, _, _)
dispatchOrientation(listeners, e, sms, ls, threw) ==
    IF listeners = <<>>
    THEN [parameterSmoothers |-> sms, loopers |-> ls, threw |-> threw]
    ELSE LET r == orientationHandler(Head(listeners), e, sms, ls)
         IN  dispatchOrientation(Tail(listeners), e, r.parameterSmoothers, r.loopers,
                                 threw \/ r.threw)

(* --------------------------- engine start ----------------------------- *)
GainNode(g) == [kind |-> "gain", gain |-> g]
Compressor == [kind |-> "compressor", threshold |-> -20, knee |-> 5, ratio |-> 20]
Convolver == [kind |-> "convolver", seconds |-> 3]
AudioContext == [kind |-> "context"]

\* The resume() continuation (lines 436-519) makes its node-creating calls in
\* this order; `done` of them return before one throws (all: BuildSteps).
StepMasterGain == 1
StepCompressor == 2
StepReverb == 3
StepWet == 4
StepDry == 5
StepChord == StepDry + NumNotes
StepLoopers == StepChord + NumLoopers
BuildSteps == StepLoopers

Engine ==
    [audioCtx |-> audioCtx, pendingResume |-> pendingResume, isPlaying |-> isPlaying,
     masterGain |-> masterGain, compressor |-> compressor,
     masterReverb |-> masterReverb, reverbWet |-> reverbWet, reverbDry |-> reverbDry,
     startedOscillators |-> startedOscillators, chordOscillators |-> chordOscillators,
     loopers |-> loopers, parameterSmoothers |-> parameterSmoothers,
     updateLoops |-> updateLoops, controlsWired |-> controlsWired,
     lastLog |-> lastLog, alerts |-> alerts]

freshSmoothers ==
    [i \in LooperIds |-> [glitchIntensity |-> ParameterSmoother(0, 3),
                          stutterRate |-> ParameterSmoother(0, 4)]]

\* startOscillators up to the resume() call, lines 418-435
startOscillators(en) ==
    IF en.isPlaying THEN [en EXCEPT !.lastLog = <<"Already playing!", -1>>]
    ELSE [en EXCEPT !.audioCtx = IF @ = Null THEN AudioContext ELSE @,
                    !.pendingResume = @ + 1]

\* the continuation after `done` creating calls returned
buildGraph(en, done) ==
    LET ls == IF done >= StepChord
              THEN [i \in 0 .. (done - StepChord - 1) |-> createLooper(i)]
              ELSE en.loopers
        complete == done = BuildSteps
        first == updateLooperParameters(ls, freshSmoothers)
    IN  [en EXCEPT
            !.pendingResume = @ - 1,
            !.masterGain = IF done >= StepMasterGain THEN GainNode(MasterVolume) ELSE @,
            !.compressor = IF done >= StepCompressor THEN Compressor ELSE @,
            !.masterReverb = IF done >= StepReverb THEN Convolver ELSE @,
            !.reverbWet = IF done >= StepWet THEN GainNode(0) ELSE @,
            !.reverbDry = IF done >= StepDry THEN GainNode(100) ELSE @,
            !.startedOscillators =
                @ + (IF done >= StepChord THEN NumNotes
                     ELSE IF done > StepDry THEN done - StepDry ELSE 0),
            !.chordOscillators =
                IF done >= StepChord THEN [kind |-> "chord", voices |-> NumNotes] ELSE @,
            !.loopers = IF complete THEN first.loopers ELSE ls,
            !.parameterSmoothers = IF complete THEN first.parameterSmoothers ELSE @,
            !.isPlaying = IF complete THEN TRUE ELSE @,
            !.updateLoops = IF complete THEN @ + 1 ELSE @,
            !.controlsWired = IF complete THEN @ + 1 ELSE @,
            !.alerts = IF complete THEN @ ELSE @ + 1,
            !.lastLog = IF complete THEN <<"Audio system fully initialized", -1>>
                        ELSE <<"Failed to resume audio context", -1>>]

\* resume() rejected: only the catch handler runs
resumeFailed(en) ==
    [en EXCEPT !.pendingResume = @ - 1, !.alerts = @ + 1,
               !.lastLog = <<"Failed to resume audio context", -1>>]

(* ---------------------------- audio graph ----------------------------- *)
\* The connect() calls made so far, as directed edges between nodes.  A node is
\* <<name, looper index>>, with index -1 for the nodes of the master chain.
Node(name, i) == <<name, i>>
Destination == Node("destination", -1)

Connections ==
    (IF reverbDry # Null
     THEN { <<Node("masterGain", -1), Node("reverbDry", -1)>>,
            <<Node("masterGain", -1), Node("masterReverb", -1)>>,
            <<Node("masterReverb", -1), Node("reverbWet", -1)>>,
            <<Node("reverbDry", -1), Node("compressor", -1)>>,
            <<Node("reverbWet", -1), Node("compressor", -1)>> }
     ELSE {})
    \cup (IF chordOscillators # Null
          THEN { <<Node("chordMixer", -1), Node("masterGain", -1)>> } ELSE {})
    \cup UNION { { <<Node("masterGain", -1), Node("scriptProcessor", i)>>,
                   <<Node("scriptProcessor", i), Destination>> } : i \in DOMAIN loopers }
    \cup (IF isPlaying THEN { <<Node("compressor", -1), Destination>> } ELSE {})
    \cup { <<Node("bufferSource", i), Node("playbackGain", i)>> :
              i \in { j \in DOMAIN loopers : startedVoices[j] > 0 } }
    \cup { <<Node("playbackGain", i), Node(loopers[i].playbackGainTo, -1)>> :
              i \in { j \in DOMAIN loopers : loopers[j].playbackGainTo # "none" } }

\* the nodes a signal entering at the nodes S reaches over the edges E
RECURSIVE Reaches(_, _)
Reaches(S, E) ==
    LET T == S \cup { e[2] : e \in { d \in E : d[1] \in S } }
    IN  IF T = S THEN S ELSE Reaches(T, E)

\* the edges left when the nodes in Cut are taken out
Without(E, Cut) == { e \in E : e[1] \notin Cut /\ e[2] \notin Cut }

(* ------------------------------ actions ------------------------------- *)
Budget == steps < MaxSteps /\ steps' = steps + 1

SetEngine(en) ==
    /\ audioCtx' = en.audioCtx /\ pendingResume' = en.pendingResume
    /\ isPlaying' = en.isPlaying /\ masterGain' = en.masterGain
    /\ compressor' = en.compressor /\ masterReverb' = en.masterReverb
    /\ reverbWet' = en.reverbWet /\ reverbDry' = en.reverbDry
    /\ startedOscillators' = en.startedOscillators
    /\ chordOscillators' = en.chordOscillators
    /\ loopers' = en.loopers /\ parameterSmoothers' = en.parameterSmoothers
    /\ updateLoops' = en.updateLoops /\ controlsWired' = en.controlsWired
    /\ lastLog' = en.lastLog /\ alerts' = en.alerts

SetWorld(w) ==
    /\ loopers' = w.loopers /\ statusText' = w.statusText /\ lastLog' = w.lastLog
    /\ startedVoices' = w.startedVoices

ghostVars == <<quantCall, smootherCall, ticks, startCalls>>

InitPage ==
    /\ startButtonDisabled = FALSE /\ permissionPending = FALSE
    /\ audioCtx = Null /\ pendingResume = 0 /\ isPlaying = FALSE
    /\ masterGain = Null /\ compressor = Null /\ masterReverb = Null
    /\ reverbWet = Null /\ reverbDry = Null
    /\ startedOscillators = 0 /\ chordOscillators = Null
    /\ loopers = [i \in {} |-> 0] /\ parameterSmoothers = [i \in {} |-> 0]
    /\ updateLoops = 0 /\ controlsWired = 0 /\ orientationListeners = <<>>
    /\ orientation = [xValue |-> 0, yValue |-> 0, rotation |-> 0]
    /\ statusText = [i \in LooperIds |-> ""]
    /\ startedVoices = [i \in LooperIds |-> 0]
    /\ reverbValue = 0
    /\ lastLog = <<"", -1>>
    /\ alerts = 0 /\ uncaught = "none"
    /\ fed = [i \in LooperIds |-> <<>>]
    /\ mixSinceStart = <<>>
    /\ steps = 0 /\ ticks = 0 /\ startCalls = 0

\* a smoother as the engine constructs it, with no call made on it yet
SmootherCall(s, inRange) ==
    [s |-> s, before |-> s.currentValue, returned |-> s.currentValue,
     stepped |-> FALSE, inRange |-> inRange]

NoCalls ==
    /\ quantCall = [x |-> 0, called |-> FALSE, result |-> 0]
    /\ smootherCall = SmootherCall(ParameterSmoother(0, 3), TRUE)

Init == InitPage /\ NoCalls

\* the start button's click handler, lines 610-615, and permission()
StartClick(ios) ==
    /\ ~startButtonDisabled /\ Budget
    /\ startButtonDisabled' = TRUE
    /\ IF ios
       THEN /\ permissionPending' = TRUE
            /\ UNCHANGED <<engineVars, loopers, parameterSmoothers, lastLog, alerts,
                           orientationListeners>>
       ELSE /\ SetEngine(startOscillators(Engine))
            /\ orientationListeners' = Append(orientationListeners, "direct")
            /\ UNCHANGED permissionPending
    /\ UNCHANGED <<orientation, statusText, startedVoices, reverbValue, uncaught, fed,
                   mixSinceStart, ghostVars>>

\* requestPermission() settles, lines 531-571
PermissionSettled(response) ==
    /\ permissionPending /\ Budget
    /\ permissionPending' = FALSE
    /\ CASE response = "granted" ->
              /\ SetEngine(startOscillators(Engine))
              /\ orientationListeners' = Append(orientationListeners, "granted")
         [] response = "denied" ->
              UNCHANGED <<engineVars, loopers, parameterSmoothers, lastLog, alerts,
                          orientationListeners>>
         [] OTHER ->
              /\ alerts' = alerts + 1
              /\ UNCHANGED <<engineVars, loopers, parameterSmoothers, lastLog,
                             orientationListeners>>
    /\ UNCHANGED <<startButtonDisabled, orientation, statusText, startedVoices,
                   reverbValue, uncaught, fed, mixSinceStart, ghostVars>>

ResumeResolved(done) ==
    /\ pendingResume > 0 /\ Budget
    /\ SetEngine(buildGraph(Engine, done))
    /\ mixSinceStart' = IF done = BuildSteps THEN <<>> ELSE mixSinceStart
    /\ UNCHANGED <<pageVars, orientation, statusText, startedVoices, reverbValue,
                   uncaught, fed, ghostVars>>

ResumeRejected ==
    /\ pendingResume > 0 /\ Budget
    /\ SetEngine(resumeFailed(Engine))
    /\ UNCHANGED <<pageVars, orientation, statusText, startedVoices, reverbValue,
                   uncaught, fed, mixSinceStart, ghostVars>>

\* --- transport buttons (initLooperControls, lines 360-416) ---
Wired(i) == controlsWired > 0 /\ i \in DOMAIN loopers

transportFrame == <<pageVars, engineVars, parameterSmoothers, orientation, reverbValue,
                    alerts, uncaught, mixSinceStart, ghostVars>>

Record(i) ==
    /\ Wired(i) /\ Budget
    /\ SetWorld(Clicks("rec", World, i, controlsWired))
    /\ fed' = [fed EXCEPT ![i] = <<>>]
    /\ UNCHANGED transportFrame

Play(i) ==
    /\ Wired(i) /\ Budget
    /\ SetWorld(Clicks("play", World, i, controlsWired))
    /\ UNCHANGED <<fed, transportFrame>>

Stop(i) ==
    /\ Wired(i) /\ Budget
    /\ SetWorld(Clicks("stop", World, i, controlsWired))
    /\ UNCHANGED <<fed, transportFrame>>

\* the user confirms the dialog; declining it runs nothing
Clear(i) ==
    /\ Wired(i) /\ Budget
    /\ SetWorld(Clicks("clear", World, i, controlsWired))
    /\ fed' = [fed EXCEPT ![i] = <<>>]
    /\ UNCHANGED transportFrame

\* --- audio render path: one callback of looper i's ScriptProcessor ---
RECURSIVE ArrayToSeq(_, _)
ArrayToSeq(a, n) == IF n = 0 THEN <<>> ELSE Append(ArrayToSeq(a, n - 1), a[n - 1])

AudioProcess(i, input) ==
    /\ i \in DOMAIN loopers /\ loopers[i].isRecording /\ Budget
    /\ SetWorld(onaudioprocess(World, i, input))
    /\ fed' = [fed EXCEPT ![i] = @ \o ArrayToSeq(input, ALen(input))]
    /\ UNCHANGED transportFrame

\* --- one animation frame of one update loop ---
Frame ==
    /\ updateLoops > 0 /\ ticks < MaxTicks /\ Budget
    /\ LET r == updateLooperParameters(loopers, parameterSmoothers)
       IN  loopers' = r.loopers /\ parameterSmoothers' = r.parameterSmoothers
    /\ ticks' = ticks + 1
    /\ UNCHANGED <<pageVars, engineVars, orientation, statusText, startedVoices,
                   reverbValue, lastLog, alerts, uncaught, fed, mixSinceStart,
                   quantCall, smootherCall, startCalls>>

\* --- a deviceorientation event reaches the registered handler ---
DeviceOrientation(e) ==
    /\ orientationListeners # <<>> /\ Budget
    /\ orientation' = [xValue |-> e.gamma, yValue |-> e.beta, rotation |-> e.alpha]
    /\ LET r == dispatchOrientation(orientationListeners, e, parameterSmoothers,
                                    loopers, FALSE)
       IN  /\ loopers' = r.loopers /\ parameterSmoothers' = r.parameterSmoothers
           /\ uncaught' = IF r.threw THEN "TypeError" ELSE uncaught
    /\ UNCHANGED <<pageVars, engineVars, statusText, startedVoices, reverbValue,
                   lastLog, alerts, fed, mixSinceStart, ghostVars>>

\* --- the reverb slider's input handler, lines 617-630 ---
Percents == {0, 30, 100}

reverbSliderInputWetOnly(wet, dry, reverbAmount) ==
    IF wet # Null /\ dry # Null
    THEN [wet |-> [wet EXCEPT !.gain = reverbAmount], dry |-> dry, applied |-> TRUE]
    ELSE [wet |-> wet, dry |-> dry, applied |-> FALSE]

reverbSliderInput(wet, dry, reverbAmount) ==
    IF wet # Null /\ dry # Null
    THEN [wet |-> [wet EXCEPT !.gain = reverbAmount],
          dry |-> [dry EXCEPT !.gain = 100 - reverbAmount], applied |-> TRUE]
    ELSE [wet |-> wet, dry |-> dry, applied |-> FALSE]

ReverbInput(p) ==
    /\ Budget
    /\ reverbValue' = p
    /\ LET r == reverbSliderInput(reverbWet, reverbDry, p)
       IN  /\ reverbWet' = r.wet /\ reverbDry' = r.dry
           /\ lastLog' = IF r.applied THEN <<"Reverb updated to", p>> ELSE lastLog
    /\ mixSinceStart' = IF isPlaying THEN <<p>> ELSE mixSinceStart
    /\ UNCHANGED <<pageVars, audioCtx, pendingResume, isPlaying, masterGain, compressor,
                   masterReverb, startedOscillators, chordOscillators, updateLoops,
                   controlsWired, loopers, parameterSmoothers, orientation, statusText,
                   startedVoices, alerts, uncaught, fed, ghostVars>>

Next ==
    \/ \E ios \in BOOLEAN : StartClick(ios)
    \/ \E response \in {"granted", "denied", "error"} : PermissionSettled(response)
    \/ \E done \in 0 .. BuildSteps : ResumeResolved(done)
    \/ ResumeRejected
    \/ \E i \in LooperIds : Record(i)
    \/ \E i \in LooperIds : Play(i)
    \/ \E i \in LooperIds : Stop(i)
    \/ \E i \in LooperIds : Clear(i)
    \/ \E i \in LooperIds, input \in Blocks : AudioProcess(i, input)
    \/ Frame
    \/ \E e \in OrientationSamples : DeviceOrientation(e)
    \/ \E p \in Percents : ReverbInput(p)

Spec == Init /\ [][Next]_vars

(* The start interface driven directly: startOscillators() called any number of
   times (up to MaxStartCalls), with the page's own start path, the resume()
   outcomes, frames, sensor events and the reverb slider.  The transport
   buttons and render callbacks are not exercised here. *)
StartEngineCall ==
    /\ startCalls < MaxStartCalls /\ Budget
    /\ startCalls' = startCalls + 1
    /\ SetEngine(startOscillators(Engine))
    /\ UNCHANGED <<pageVars, orientation, statusText, startedVoices, reverbValue,
                   uncaught, fed, mixSinceStart, quantCall, smootherCall, ticks>>

NextApi ==
    \/ StartEngineCall
    \/ \E ios \in BOOLEAN : StartClick(ios)
    \/ \E response \in {"granted", "denied", "error"} : PermissionSettled(response)
    \/ \E done \in 0 .. BuildSteps : ResumeResolved(done)
    \/ ResumeRejected
    \/ Frame
    \/ \E e \in OrientationSamples : DeviceOrientation(e)
    \/ \E p \in Percents : ReverbInput(p)

SpecApi == Init /\ [][NextApi]_vars

(* The running engine: the page right after a start on the direct path has
   completed (the state Spec reaches by StartClick(FALSE) and
   ResumeResolved(BuildSteps)), driven by the transport buttons, the render
   callbacks, the update loop and the sensor.  Without the start sequence and
   the reverb slider, MaxEvents events reach one event further into a take
   than Spec does: a speed change that arrives while a voice is playing. *)
Running ==
    /\ startButtonDisabled = TRUE /\ permissionPending = FALSE
    /\ audioCtx = AudioContext /\ pendingResume = 0 /\ isPlaying = TRUE
    /\ masterGain = GainNode(MasterVolume) /\ compressor = Compressor
    /\ masterReverb = Convolver
    /\ reverbWet = GainNode(0) /\ reverbDry = GainNode(100)
    /\ startedOscillators = NumNotes
    /\ chordOscillators = [kind |-> "chord", voices |-> NumNotes]
    /\ LET first == updateLooperParameters([i \in LooperIds |-> createLooper(i)],
                                           freshSmoothers)
       IN  loopers = first.loopers /\ parameterSmoothers = first.parameterSmoothers
    /\ updateLoops = 1 /\ controlsWired = 1 /\ orientationListeners = <<"direct">>
    /\ orientation = [xValue |-> 0, yValue |-> 0, rotation |-> 0]
    /\ statusText = [i \in LooperIds |-> ""]
    /\ startedVoices = [i \in LooperIds |-> 0]
    /\ reverbValue = 0
    /\ lastLog = <<"Audio system fully initialized", -1>>
    /\ alerts = 0 /\ uncaught = "none"
    /\ fed = [i \in LooperIds |-> <<>>]
    /\ mixSinceStart = <<>>
    /\ ticks = 0 /\ startCalls = 0
    /\ NoCalls

\* the content of a block plays no part here: one block of each size
PlainBlocks == { b \in Blocks : \A k \in DOMAIN b : b[k] = 1 }

\* MaxEvents of the MaxSteps events are left
InitRunning == Running /\ steps = MaxSteps - MaxEvents

NextRunning ==
    \/ \E i \in LooperIds : Record(i)
    \/ \E i \in LooperIds : Play(i)
    \/ \E i \in LooperIds : Stop(i)
    \/ \E i \in LooperIds : Clear(i)
    \/ \E i \in LooperIds, input \in PlainBlocks : AudioProcess(i, input)
    \/ Frame
    \/ \E e \in OrientationSamples : DeviceOrientation(e)

SpecRunning == InitRunning /\ [][NextRunning]_vars

(* The speed quantizer on its own: one call of mapToSpeed per behaviour. *)
QuantInputs == (0 - QuantMargin) .. (Scale + QuantMargin)

InitQuantizer ==
    /\ InitPage
    /\ quantCall \in [x : QuantInputs, called : {FALSE}, result : {0}]
    /\ smootherCall = SmootherCall(ParameterSmoother(0, 3), TRUE)

CallMapToSpeed ==
    /\ ~quantCall.called
    /\ quantCall' = [quantCall EXCEPT !.called = TRUE, !.result = mapToSpeed(quantCall.x)]
    /\ UNCHANGED <<pageVars, engineVars, loopers, parameterSmoothers, orientation,
                   statusText, startedVoices, reverbValue, lastLog, alerts, uncaught, fed,
                   mixSinceStart, smootherCall, steps, ticks, startCalls>>

NextQuantizer == CallMapToSpeed

SpecQuantizer == InitQuantizer /\ [][NextQuantizer]_vars

(* A ParameterSmoother on its own: constructed with any factor k/20 in (0,1]
   and an initial value, then driven by setTarget and step calls in any order
   (at most MaxTicks steps, which keeps the fixed-point values exact). *)
Factors == 1 .. 20
\* normalized values in 1/Scale: -0.25, 0, 0.25, 0.5, 1, 1.25
SmootherValues == {0 - (Scale \div 4), 0, Scale \div 4, Scale \div 2, Scale,
                   Scale + (Scale \div 4)}
InRange(x) == 0 <= x /\ x <= Scale

InitSmoother ==
    /\ InitPage
    /\ quantCall = [x |-> 0, called |-> FALSE, result |-> 0]
    /\ \E f \in Factors, x \in SmootherValues :
          smootherCall = SmootherCall(ParameterSmoother(Norm2FP(x), f), InRange(x))

smootherFrame == <<pageVars, engineVars, loopers, parameterSmoothers, orientation,
                   statusText, startedVoices, reverbValue, lastLog, alerts, uncaught, fed,
                   mixSinceStart, quantCall, steps, startCalls>>

CallSetTarget(x) ==
    /\ smootherCall' = [smootherCall EXCEPT
                            !.s = setTarget(@, Norm2FP(x)),
                            !.stepped = FALSE,
                            !.inRange = @ /\ InRange(x)]
    /\ UNCHANGED <<smootherFrame, ticks>>

\* step() returns the new currentValue
CallStep ==
    /\ ticks < MaxTicks
    /\ ticks' = ticks + 1
    /\ smootherCall' = [smootherCall EXCEPT
                            !.s = step(@),
                            !.before = smootherCall.s.currentValue,
                            !.returned = step(smootherCall.s).currentValue,
                            !.stepped = TRUE]
    /\ UNCHANGED smootherFrame

NextSmoother ==
    \/ \E x \in SmootherValues : CallSetTarget(x)
    \/ CallStep

SpecSmoother == InitSmoother /\ [][NextSmoother]_vars

(* ====================== properties of the looper ====================== *)

\* C1: no looper is ever Recording and Playing at the same time.
C1_TransportExclusivity ==
    \A i \in DOMAIN loopers : ~(loopers[i].isRecording /\ loopers[i].isPlaying)

\* record(i) has acted on a looper whose take had been played
C1_Witness ==
    \E i \in DOMAIN loopers :
        /\ loopers[i].isRecording /\ loopers[i].playbackGainTo = "compressor"
        /\ lastLog = <<"started recording", i>>

\* C2 (as claimed): play(i) with recordedLength 0 leaves looper i as it was, in
\* whatever transport state, Recording included.
C2_PlayOnEmptyNoOp ==
    [][\A i \in LooperIds :
        (Play(i) /\ loopers[i].recordedLength = 0) => loopers'[i] = loopers[i]]_vars

\* C2 (amended): play(i) with recordedLength 0 creates no voice and leaves
\* isPlaying, writePosition, recordedLength and the voice as they were; the
\* looper is not Recording afterwards (an Idle looper is unchanged, a Recording
\* one with nothing captured leaves Recording).
C2_PlayOnEmptyRefused ==
    [][\A i \in LooperIds :
        (Play(i) /\ loopers[i].recordedLength = 0)
            => loopers'[i] = [loopers[i] EXCEPT !.isRecording = FALSE]]_vars

\* play(i) was refused on a looper that holds no samples
C2_Witness ==
    \E i \in DOMAIN loopers :
        /\ lastLog = <<"no recorded content", i>>
        /\ loopers[i].recordedLength = 0 /\ ~loopers[i].isPlaying
        /\ loopers[i].bufferSource = Null /\ statusText[i] = "STOPPED"

\* C3: 0 <= writePosition <= bufferLength and recordedLength <= writePosition,
\* for every looper in every reachable state.
C3_CapacityBound ==
    \A i \in DOMAIN loopers :
        /\ 0 <= loopers[i].writePosition
        /\ loopers[i].writePosition <= bufferLength
        /\ loopers[i].recordedLength <= loopers[i].writePosition

\* more samples were delivered to a recording looper than its buffer holds
C3_Witness ==
    \E i \in DOMAIN loopers :
        /\ Len(fed[i]) > bufferLength
        /\ loopers[i].writePosition = bufferLength
        /\ loopers[i].recordedLength = bufferLength

\* C4 (as claimed): between callbacks no looper is Recording with a full buffer.
C4_StopsInSameCallback ==
    \A i \in DOMAIN loopers :
        ~(loopers[i].isRecording /\ loopers[i].writePosition = bufferLength)

\* C4 (amended): a callback that starts below capacity writes
\* min(block length, remaining) samples and leaves the looper Recording, also
\* when it fills the buffer; the next callback, finding the buffer full, writes
\* nothing and leaves Recording, so the take is exactly bufferLength long.
C4_StopsInNextCallback ==
    [][\A i \in LooperIds : \A input \in Blocks :
        \* (only a callback lengthens fed[i]: the test spares evaluating the others)
        (Len(fed'[i]) > Len(fed[i]) /\ AudioProcess(i, input)) =>
            IF loopers[i].writePosition = bufferLength
            THEN /\ ~loopers'[i].isRecording
                 /\ loopers'[i] = [loopers[i] EXCEPT !.isRecording = FALSE]
            ELSE /\ loopers'[i].isRecording
                 /\ loopers'[i].writePosition =
                        Min(loopers[i].writePosition + ALen(input), bufferLength)]_vars

\* recording has ended on a full buffer after more samples than fit were delivered
C4_Witness ==
    \E i \in DOMAIN loopers :
        /\ ~loopers[i].isRecording /\ loopers[i].writePosition = bufferLength
        /\ Len(fed[i]) > bufferLength
        /\ lastLog = <<"stopped recording", i>> /\ statusText[i] = "STOPPED"

\* C5: play(i) on a take of n delivered samples, 0 < n <= bufferLength, ends
\* Playing with recordedLength = n and a looping voice whose buffer is the
\* delivered samples in order.
C5_RoundTrip ==
    [][\A i \in LooperIds :
        (Play(i) /\ Len(fed[i]) \in 1 .. bufferLength) =>
            /\ loopers'[i].isPlaying /\ ~loopers'[i].isRecording
            /\ loopers'[i].recordedLength = Len(fed[i])
            /\ loopers'[i].bufferSource # Null
            /\ loopers'[i].bufferSource.started /\ loopers'[i].bufferSource.loop
            /\ ArrayToSeq(loopers'[i].bufferSource.buffer,
                          ALen(loopers'[i].bufferSource.buffer)) = fed[i]]_vars

\* a take of two different samples is playing
C5_Witness ==
    \E i \in DOMAIN loopers :
        /\ loopers[i].isPlaying /\ lastLog = <<"started playback", i>>
        /\ Len(fed[i]) = bufferLength /\ fed[i][1] # fed[i][2]
        /\ loopers[i].bufferSource # Null
        /\ ArrayToSeq(loopers[i].bufferSource.buffer, bufferLength) = fed[i]

(* ====================== properties of the engine ====================== *)

\* C6 (as claimed): an orientation sample handled while the engine is not
\* running raises no error and changes no looper or smoother state.
C6_SensorBeforeEngineIsNoOp ==
    [][\A e \in OrientationSamples :
        (DeviceOrientation(e) /\ ~isPlaying) =>
            /\ uncaught' = uncaught
            /\ loopers' = loopers
            /\ parameterSmoothers' = parameterSmoothers]_vars

\* C7 (as claimed): however startOscillators() calls interleave with the
\* resume() completions, the graph, drone, loopers, control wiring and update
\* loop are built at most once.
C7_BuiltAtMostOnce ==
    /\ updateLoops <= 1
    /\ controlsWired <= 1

NothingRetained ==
    /\ audioCtx = Null /\ masterGain = Null /\ compressor = Null
    /\ masterReverb = Null /\ reverbWet = Null /\ reverbDry = Null
    /\ startedOscillators = 0 /\ chordOscillators = Null
    /\ DOMAIN loopers = {} /\ DOMAIN parameterSmoothers = {}

CompleteEngine ==
    /\ audioCtx # Null /\ masterGain # Null /\ compressor # Null
    /\ masterReverb # Null /\ reverbWet # Null /\ reverbDry # Null
    /\ startedOscillators = NumNotes /\ chordOscillators # Null
    /\ DOMAIN loopers = LooperIds /\ DOMAIN parameterSmoothers = LooperIds
    /\ updateLoops = 1 /\ controlsWired = 1

\* C8 (as claimed): once a start attempt has failed (its error was reported)
\* the engine is not running and nothing the attempt created remains; an
\* engine that runs is complete, with exactly 4 loopers.
C8_AllOrNothing ==
    /\ (alerts > 0 /\ pendingResume = 0) => (~isPlaying /\ NothingRetained)
    /\ isPlaying => CompleteEngine

SpeedSet == <<-16, -8, -6, -4, -2, -1, 1, 2, 4, 6, 8, 16>>

\* C10: for x in [0,1], mapToSpeed(x) is element min(floor(12x), 11) of the
\* speed set: -4 at 0, 4 at 1.0, never 0 and never outside the set.
C10_Quantizer ==
    (quantCall.called /\ quantCall.x >= 0 /\ quantCall.x <= Scale) =>
        /\ \E k \in 0 .. 11 :
              /\ k * Scale <= 12 * quantCall.x
              /\ (12 * quantCall.x < (k + 1) * Scale \/ k = 11)
              /\ quantCall.result = SpeedSet[k + 1]
        /\ quantCall.result # 0
        /\ \E n \in 1 .. 12 : quantCall.result = SpeedSet[n]
        /\ (quantCall.x = 0 => quantCall.result = -16)
        /\ (quantCall.x = Scale => quantCall.result = 16)

\* mapToSpeed was called on exactly 1.0
C10_Witness ==
    quantCall.called /\ quantCall.x = Scale /\ quantCall.result = 16

(* ================ properties of the orientation mapper ================ *)
\* the speed the routing table documents for a normalized value x (in 1/Scale)
SpeedOf(x) == SpeedSet[Min((12 * x) \div Scale, 11) + 1]

Abs(x) == IF x < 0 THEN 0 - x ELSE x
Max(a, b) == IF a > b THEN a ELSE b

\* C12: for every factor k/20 in (0,1] and every order of setTarget and step
\* calls, a step leaves the target alone, puts currentValue between its previous
\* value and the target (inclusive), and leaves the distance to the target at
\* (1 - factor) times what it was; so the value a step returns (the looper's
\* glitchIntensity) stays in [0,1] while the initial value and the targets do.
C12_NoOvershoot ==
    [][CallStep =>
        LET c == smootherCall.s.currentValue
            t == smootherCall.s.targetValue
            f == smootherCall.s.smoothingFactor
            c1 == smootherCall'.s.currentValue
        IN  /\ smootherCall'.s.targetValue = t
            /\ Min(c, t) <= c1 /\ c1 <= Max(c, t)
            /\ Abs(t - c1) * 20 = (20 - f) * Abs(t - c)
            /\ smootherCall'.returned = c1
            /\ smootherCall.inRange => (0 <= c1 /\ c1 <= FP)]_vars

\* two steps with factor 0.15 were made towards 1.0, the second one from a
\* value strictly between the start and the target
C12_Witness ==
    /\ smootherCall.stepped /\ ticks = MaxTicks /\ smootherCall.inRange
    /\ smootherCall.s.smoothingFactor = 3
    /\ smootherCall.s.targetValue = FP
    /\ 0 < smootherCall.before
    /\ smootherCall.before < smootherCall.s.currentValue
    /\ smootherCall.s.currentValue < FP

\* In the engine (Spec): the two smoothers of every looper and the values the
\* update loop copies from them stay in [0,1].
GlitchIntensityInRange ==
    /\ \A i \in DOMAIN loopers :
          /\ 0 <= loopers[i].glitchIntensity /\ loopers[i].glitchIntensity <= FP
          /\ 0 <= loopers[i].stutterRate /\ loopers[i].stutterRate <= FP
    /\ \A i \in DOMAIN parameterSmoothers :
          /\ 0 <= parameterSmoothers[i].glitchIntensity.currentValue
          /\ parameterSmoothers[i].glitchIntensity.currentValue <= FP
          /\ 0 <= parameterSmoothers[i].glitchIntensity.targetValue
          /\ parameterSmoothers[i].glitchIntensity.targetValue <= FP

(* =================== properties of the mixing graph =================== *)
\* C13 (as claimed): while the engine runs, the playback gain of every looper
\* that has a voice is connected into the master gain, and no signal path from
\* the voice reaches the destination without passing the master gain, the
\* wet/dry split and the compressor.
C13_VoicePathsThroughMaster ==
    isPlaying =>
        \A i \in DOMAIN loopers :
            loopers[i].bufferSource # Null =>
                LET voice == { Node("bufferSource", i) }
                    PassesThrough(Cut) ==
                        Destination \notin Reaches(voice, Without(Connections, Cut))
                IN  /\ <<Node("playbackGain", i), Node("masterGain", -1)>> \in Connections
                    /\ PassesThrough({ Node("masterGain", -1) })
                    /\ PassesThrough({ Node("reverbDry", -1), Node("reverbWet", -1) })
                    /\ PassesThrough({ Node("compressor", -1) })

(* ================= post-states of the transport commands ============== *)
\* C14: from any state of looper i (Idle, Playing or Recording), record(i) ends
\* with isRecording true, isPlaying false, no playback voice held by the looper
\* and writePosition = recordedLength = 0.
C14_RecordPostState ==
    [][\A i \in LooperIds :
        Record(i) =>
            /\ loopers'[i].isRecording /\ ~loopers'[i].isPlaying
            /\ loopers'[i].bufferSource = Null
            /\ loopers'[i].writePosition = 0
            /\ loopers'[i].recordedLength = 0]_vars

\* record(i) has discarded a take that had been recorded and played
C14_Witness ==
    \E i \in DOMAIN loopers :
        /\ lastLog = <<"started recording", i>> /\ statusText[i] = "RECORDING"
        /\ loopers[i].isRecording /\ ~loopers[i].isPlaying
        /\ loopers[i].bufferSource = Null
        /\ loopers[i].playbackGainTo = "compressor"
        /\ loopers[i].recordBufferData[0] \in Samples
        /\ loopers[i].writePosition = 0 /\ loopers[i].recordedLength = 0

\* C15: from any state of looper i, clear(i) ends with isRecording and isPlaying
\* false, no playback voice held by the looper and writePosition =
\* recordedLength = 0; a play(i) that follows is refused: it logs that there is
\* no recorded content and changes nothing of the looper.
C15_ClearPostState ==
    [][\A i \in LooperIds :
        /\ Clear(i) =>
              /\ ~loopers'[i].isRecording /\ ~loopers'[i].isPlaying
              /\ loopers'[i].bufferSource = Null
              /\ loopers'[i].writePosition = 0
              /\ loopers'[i].recordedLength = 0
              /\ LET after == clickHandler("play", World', i)
                 IN  /\ after.loopers = loopers'
                     /\ after.statusText = statusText'
                     /\ after.lastLog = <<"no recorded content", i>>
        /\ (Play(i) /\ lastLog = <<"cleared", i>>) =>
              /\ loopers' = loopers /\ statusText' = statusText
              /\ lastLog' = <<"no recorded content", i>>]_vars

\* play(i) was refused on a looper whose take had just been cleared
C15_Witness ==
    \E i \in DOMAIN loopers :
        /\ lastLog = <<"no recorded content", i>> /\ statusText[i] = "READY"
        /\ loopers[i].recordBufferData[0] \in Samples
        /\ ~loopers[i].isRecording /\ ~loopers[i].isPlaying
        /\ loopers[i].bufferSource = Null
        /\ loopers[i].writePosition = 0 /\ loopers[i].recordedLength = 0

\* C16 (as claimed): in every reachable state a looper that is Playing has
\* exactly one started, not yet stopped playback voice and a looper that is not
\* Playing has none; so after stop(i) or clear(i) no voice of looper i sounds.
C16_SingleOwnedVoice ==
    \A i \in DOMAIN loopers :
        startedVoices[i] = (IF loopers[i].isPlaying THEN 1 ELSE 0)

(* ==================== properties of the update loop =================== *)
\* C17: a tick leaves every looper's playbackRate equal to its
\* targetPlaybackRate and, for a Playing looper, writes that rate into the
\* voice it holds, which stays the same voice (no voice is created or
\* stopped); only play(i) creates a voice, and the voice starts at the
\* looper's current targetPlaybackRate; in every state reached, playbackRate
\* is one of the 12 speeds.
C17_LiveSpeed ==
    [][\* (only a tick advances ticks: the test spares evaluating Frame elsewhere)
       /\ (ticks' # ticks /\ Frame) =>
            \A i \in LooperIds :
                /\ loopers'[i].targetPlaybackRate = loopers[i].targetPlaybackRate
                /\ loopers'[i].playbackRate = loopers'[i].targetPlaybackRate
                /\ startedVoices'[i] = startedVoices[i]
                /\ loopers'[i].isPlaying = loopers[i].isPlaying
                /\ IF loopers[i].isPlaying
                   THEN /\ loopers[i].bufferSource # Null
                        /\ loopers'[i].bufferSource =
                              [loopers[i].bufferSource EXCEPT
                                  !.playbackRate = loopers[i].targetPlaybackRate]
                   ELSE loopers'[i].bufferSource = loopers[i].bufferSource
       /\ \A i \in LooperIds :
            startedVoices'[i] > startedVoices[i] =>
                /\ Play(i)
                /\ loopers'[i].bufferSource.playbackRate = loopers[i].targetPlaybackRate
                /\ loopers'[i].bufferSource.rateAtStart = loopers[i].targetPlaybackRate
       /\ \A i \in DOMAIN loopers' :
            \E n \in 1 .. 12 : loopers'[i].playbackRate = SpeedSet[n]]_vars

\* a tick has written a new speed into a voice that was started at another one
C17_Witness ==
    \E i \in DOMAIN loopers :
        /\ ticks > 0 /\ loopers[i].isPlaying /\ loopers[i].bufferSource # Null
        /\ loopers[i].bufferSource.playbackRate # loopers[i].bufferSource.rateAtStart
        /\ loopers[i].bufferSource.playbackRate = loopers[i].targetPlaybackRate
        /\ loopers[i].playbackRate = loopers[i].targetPlaybackRate
        /\ startedVoices[i] = 1

(* ============== the quantizer outside the interval [0,1] ============== *)
\* C18 (as claimed): for any input, below 0 and above 1 included, mapToSpeed
\* returns a member of the speed set: the first one (-4) for inputs below 0,
\* the last one (4) for inputs at or above 1.
C18_ClampedBothSides ==
    quantCall.called =>
        /\ \E n \in 1 .. 12 : quantCall.result = SpeedSet[n]
        /\ (quantCall.x < 0 => quantCall.result = SpeedSet[1])
        /\ (quantCall.x >= Scale => quantCall.result = SpeedSet[12])

(* ========================= frame conditions =========================== *)
\* what looper l has recorded: the positions and the buffer
Take(l) == <<l.writePosition, l.recordedLength, l.recordBufferData>>

\* C19: play(i) and stop(i), in any state of looper i, leave its writePosition,
\* recordedLength and recorded samples unchanged; a step that changes them is
\* record(i), clear(i) or a render callback of the recording looper i.
C19_TakeSurvivesPlayback ==
    [][\A i \in DOMAIN loopers \cap DOMAIN loopers' :
        /\ (Play(i) \/ Stop(i)) => Take(loopers'[i]) = Take(loopers[i])
        /\ Take(loopers'[i]) # Take(loopers[i]) =>
              \/ Record(i)
              \/ Clear(i)
              \/ /\ loopers[i].isRecording
                 /\ \E input \in Blocks : AudioProcess(i, input)]_vars

\* a take of two different samples has been played and stopped, and is intact
C19_Witness ==
    \E i \in DOMAIN loopers :
        /\ lastLog = <<"stopped playback", i>> /\ statusText[i] = "STOPPED"
        /\ ~loopers[i].isPlaying /\ ~loopers[i].isRecording
        /\ Len(fed[i]) = bufferLength /\ fed[i][1] # fed[i][2]
        /\ loopers[i].writePosition = bufferLength
        /\ loopers[i].recordedLength = bufferLength
        /\ ArrayToSeq(loopers[i].recordBufferData, bufferLength) = fed[i]

\* C20: record(i), play(i), stop(i), clear(i) and a render callback of looper i
\* leave every other looper j as it was: its flags, writePosition,
\* recordedLength, recorded samples and voice (and its status text and started
\* voices).
C20_LooperIndependence ==
    [][\A i \in LooperIds :
        (\/ Record(i) \/ Play(i) \/ Stop(i) \/ Clear(i)
         \/ /\ Len(fed'[i]) > Len(fed[i])
            /\ \E input \in Blocks : AudioProcess(i, input)) =>
            \A j \in LooperIds \ {i} :
                /\ loopers'[j] = loopers[j]
                /\ statusText'[j] = statusText[j]
                /\ startedVoices'[j] = startedVoices[j]
                /\ fed'[j] = fed[j]]_vars

\* play(i) has started a voice while another looper j was Recording
C20_Witness ==
    \E i, j \in DOMAIN loopers :
        /\ i # j
        /\ lastLog = <<"started playback", i>>
        /\ loopers[i].isPlaying /\ loopers[i].bufferSource # Null
        /\ loopers[j].isRecording /\ ~loopers[j].isPlaying
        /\ statusText[j] = "RECORDING" /\ statusText[i] = "PLAYING"

(* ===================== properties of the display ====================== *)
\* C21: in every reachable state, the status display of looper i reads
\* RECORDING exactly when the looper is Recording and PLAYING exactly when it
\* is Playing.
C21_StatusMatchesTransport ==
    \A i \in DOMAIN loopers :
        /\ (statusText[i] = "RECORDING") <=> loopers[i].isRecording
        /\ (statusText[i] = "PLAYING") <=> loopers[i].isPlaying

\* a take that was stopped by the callback that found the buffer full is
\* being played, and the display says so
C21_Witness ==
    \E i \in DOMAIN loopers :
        /\ Len(fed[i]) > bufferLength
        /\ loopers[i].recordedLength = bufferLength
        /\ loopers[i].isPlaying /\ ~loopers[i].isRecording
        /\ statusText[i] = "PLAYING" /\ lastLog = <<"started playback", i>>

\* C22: nothing ever sets the target of a stutterRate smoother, so in every
\* reachable state every looper's stutterRate and the current and target value
\* of its smoother are 0, their initial value.
C22_StutterRateInert ==
    /\ \A i \in DOMAIN loopers : loopers[i].stutterRate = 0
    /\ \A i \in DOMAIN parameterSmoothers :
          /\ parameterSmoothers[i].stutterRate.currentValue = 0
          /\ parameterSmoothers[i].stutterRate.targetValue = 0

\* a sample was handled and a tick has moved the glitch intensity of a looper
\* under transport, while its stutterRate stayed at 0
C22_Witness ==
    \E i \in DOMAIN loopers :
        /\ ticks > 0 /\ loopers[i].isRecording
        /\ parameterSmoothers[i].glitchIntensity.targetValue > 0
        /\ loopers[i].glitchIntensity > 0
        /\ loopers[i].stutterRate = 0
        /\ parameterSmoothers[i].stutterRate.currentValue = 0
        /\ parameterSmoothers[i].stutterRate.targetValue = 0

====
